---- MODULE Spec2Model ----
(***************************************************************************)
(* Waste-collection backend (Express + Mongoose), as a state machine.      *)
(*                                                                         *)
(* The repository holds three snapshots of the same service:               *)
(*   "v1"  src/unnamed/part_000:1-73     no authentication                 *)
(*   "v2"  src/unnamed/part_000:75-300,  bearer tokens, role checks on     *)
(*         src/unnamed/part_001          complete and driver/route         *)
(*   "v3"  src/backend/index.js          every route role-gated, NGOs and  *)
(*                                       donations                         *)
(* The state is the content of the four collections, the requests that are *)
(* suspended at an await, the tokens that login has issued and the         *)
(* response produced by the last step.  One action is one handler run (or, *)
(* for the registration handlers, one run between two awaits).             *)
(*                                                                         *)
(* v2 is taken from part_001, which carries the corrected destructuring of *)
(* the login body (part_000:153) and is otherwise the same service.        *)
(*                                                                         *)
(* The handlers fall into groups that write disjoint collections, and the  *)
(* module has one specification per group, each with the request inputs    *)
(* that matter for it:                                                     *)
(*   SpecPickups  pickup routes of v1..v3, every body and id parameter     *)
(*   SpecRoute    the driver's route built from the optimizer's answer     *)
(*   SpecApi      every protected route under every kind of header         *)
(*   SpecAuth     register, register-ngo and login, interleaved at awaits  *)
(*   SpecDonations  donations to two NGOs, the second NGO registering and  *)
(*                logging in meanwhile                                     *)
(***************************************************************************)
EXTENDS Integers, Sequences, FiniteSets, Bags, TLC

\* ------------------------------------------------------------------ bounds
MaxPickups == 2
MaxStops == 2
MaxInflight == 2
MaxNewUsers == 2
MaxDonations == 2

\* --------------------------------------------------------------- constants
JWT_SECRET == "jwt-secret"
Versions == {"v1", "v2", "v3"}
AuthVersions == {"v2", "v3"}

VARIABLES version, users, ngos, pickups, donations, inflight, tokens, resp
vars == <<version, users, ngos, pickups, donations, inflight, tokens, resp>>

\* ----------------------------------------------------------------- helpers
Range(s) == {s[i] : i \in DOMAIN s}

\* An ObjectId of a collection; documents are kept in insertion order and the
\* n-th document of a collection has the id Oid(collection, n).
Oid(c, n) == [c |-> c, n |-> n]

\* The 24-hex-digit string form of an ObjectId (what travels in URLs and in
\* JSON), and strings that are not of that form.
OidString(oid) == <<"hex", oid.c, oid.n>>
BadIdString == <<"raw", "zz", 0>>
IsHexString(s) == s[1] = "hex"
\* Mongoose's cast of a path parameter to an ObjectId; defined for hex strings.
CastObjectId(s) == Oid(s[2], s[3])

\* userSchema.email has lowercase: true
ToLowerCase(e) == IF e = "A@x.org" THEN "a@x.org" ELSE e

\* bcrypt: the stored value carries the salt and the digest of salt+password.
BcryptHash(pw, salt) == <<"$2a$10$", salt, pw>>
\* Variant: the comparison's result is not used.
BcryptCompareAny(pw, hash) == TRUE
BcryptCompare(pw, hash) == BcryptHash(pw, hash[2]) = hash

\* Thrown errors.
DbError == [name |-> "MongoNetworkError", message |-> "connection lost"]
DupKeyError == [name |-> "MongoServerError", message |-> "E11000 duplicate key"]
CastError == [name |-> "CastError", message |-> "Cast to ObjectId failed"]
ValidationError ==
  [name |-> "ValidationError", message |-> "Path amount is required."]
\* JSON.stringify of an error object put into a response body: message is a
\* non-enumerable property of Error, so it survives only where the class has
\* its own toJSON (Mongoose's CastError and ValidationError).
ErrorToJSON(e) ==
  IF e.name \in {"CastError", "ValidationError"} THEN <<e.name, e.message>>
  ELSE <<>>

\* --------------------------------------------------------------- requests
NoReq ==
  [header |-> <<>>, id |-> BadIdString, email |-> "", password |-> "",
   name |-> "", wasteType |-> "", address |-> "",
   amount |-> <<"missing", 0>>, role |-> ""]

\* A signed token as it travels in the Authorization header.
Token(payload, sig, expired) ==
  [payload |-> payload, sig |-> sig, expired |-> expired]
Payload(userId, role) == [userId |-> userId, role |-> role]
NoPayload == Payload(Oid("User", 0), "")

\* ---------------------------------------------------------------- response
NoResp ==
  [route |-> "", status |-> 0, message |-> <<>>, error |-> <<>>,
   thrown |-> {}, entered |-> FALSE, dbOps |-> 0, user |-> NoPayload,
   list |-> <<>>, stops |-> <<>>, token |-> {}, req |-> NoReq,
   prior |-> ""]

Reply(route, req, user, status, message) ==
  [NoResp EXCEPT !.route = route, !.req = req, !.user = user,
                 !.entered = TRUE, !.status = status, !.message = message]

\* catch blocks of the pickup routes: a fixed message and the error object
PickupCatch(route, req, user, message, e, ops) ==
  [Reply(route, req, user, 500, <<message>>) EXCEPT
     !.error = ErrorToJSON(e), !.thrown = {e}, !.dbOps = ops]

\* catch blocks of the auth, NGO and donation routes: prefix + error.message
MessageCatch(route, req, user, prefix, e, ops) ==
  [Reply(route, req, user, 500, <<prefix, e.message>>) EXCEPT
     !.thrown = {e}, !.dbOps = ops]

\* ----------------------------------------------------------- authMiddleware
\* Variant: the token is decoded but its signature and expiry are not checked.
JwtDecodeOnly(tok) == TRUE

\* jwt.verify: the signature is the server's and the token has not expired.
JwtVerify(tok) == tok.sig = JWT_SECRET /\ ~tok.expired

\* The header is modelled by its parts, token.split(' '); <<>> is an absent
\* (or empty) header.  Result: the 401 response, or NoResp when next() runs.
AuthReject(route, req) ==
  LET h == req.header IN
  IF h = <<>>
    THEN [NoResp EXCEPT !.route = route, !.req = req, !.status = 401,
                        !.message = <<"No token, authorization denied.">>]
  ELSE IF Len(h) < 2 \/ ~JwtVerify(h[2])
    THEN [NoResp EXCEPT !.route = route, !.req = req, !.status = 401,
                        !.message = <<"Token is not valid.">>]
  ELSE NoResp

\* req.user after authMiddleware (the decoded payload); in v1 there is none.
ReqUser(req) ==
  IF version \in AuthVersions /\ AuthReject("", req).status = 0
    THEN req.header[2].payload ELSE NoPayload

\* A route's guard chain in front of its handler body: authMiddleware (v2, v3)
\* and then the handler's role check.  `allowed` is the set of roles the
\* handler lets through.  Result: the 401/403 response or NoResp.
Gate(route, req, allowed, denied) ==
  IF version \notin AuthVersions THEN NoResp
  ELSE IF AuthReject(route, req).status # 0 THEN AuthReject(route, req)
  ELSE IF ReqUser(req).role \notin allowed
    THEN Reply(route, req, ReqUser(req), 403, <<denied>>)
  ELSE NoResp

AllRoles == {"user", "driver", "admin", "ngo"}

\* ------------------------------------------------------------------ pickups
\* new Pickup({ wasteType, address }) under pickupSchema: status defaults.
NewPickup(w, a) == [wasteType |-> w, address |-> a, status |-> "Pending"]

PickupId(i) == Oid("Pickup", i)

\* Pickup.find(): every document, in insertion order.
AllPickupIds == [i \in 1..Len(pickups) |-> i]

\* Binary string order of the addresses in use (a missing address sorts first).
AddressRank ==
  [a \in {"", "1 Ash Rd", "2 Elm St"} |->
     IF a = "" THEN 0 ELSE IF a = "1 Ash Rd" THEN 1 ELSE 2]

\* Variant: the query without its status filter
SelectEvery(n) == [i \in 1..n |-> i]

RECURSIVE SelectPending(_)
\* Pickup.find({ status: 'Pending' }): the matching documents, in insertion order
SelectPending(n) ==
  IF n = 0 THEN <<>>
  ELSE IF pickups[n].status = "Pending"
    THEN Append(SelectPending(n - 1), n)
  ELSE SelectPending(n - 1)

PendingPickups == SelectPending(Len(pickups))

RECURSIVE InsertByAddress(_, _)
InsertByAddress(s, i) ==
  IF s = <<>> THEN <<i>>
  ELSE IF AddressRank[pickups[i].address] < AddressRank[pickups[Head(s)].address]
    THEN <<i>> \o s
  ELSE <<Head(s)>> \o InsertByAddress(Tail(s), i)

\* Variant: the query without its .sort()
SortNothing(s) == s

RECURSIVE SortByAddress(_)
\* .sort({ address: 1 })
SortByAddress(s) ==
  IF s = <<>> THEN <<>>
  ELSE InsertByAddress(SortByAddress(SubSeq(s, 1, Len(s) - 1)), s[Len(s)])

\* Variant: GET /api/pickups without its role check
PickupsRolesOpen == {"user", "driver", "admin", "ngo"}

\* Roles each version's handler lets through.
PickupsRoles == IF version = "v3" THEN {"admin"} ELSE AllRoles
ScheduleRoles == IF version = "v3" THEN {"user"} ELSE AllRoles
CompleteRoles == {"admin", "driver"}
DriverRouteRoles == {"driver"}

\* GET /api/pickups
GetPickups(req, fail) ==
  LET g == Gate("pickups", req, PickupsRoles, "Access denied.")
      u == ReqUser(req) IN
  /\ resp' = IF g.status # 0 THEN g
             ELSE IF fail
               THEN PickupCatch("pickups", req, u, "Error fetching pickups",
                                DbError, 1)
             ELSE [Reply("pickups", req, u, 200, <<>>) EXCEPT
                     !.list = AllPickupIds, !.dbOps = 1]
  /\ UNCHANGED <<version, users, ngos, pickups, donations, inflight, tokens>>

\* v1 and v2 validate the body; v3 does not.
ScheduleValidates == version # "v3"

\* POST /api/schedule
SchedulePickup(req, fail) ==
  LET g == Gate("schedule", req, ScheduleRoles,
                "Only users can schedule pickups.")
      u == ReqUser(req)
      invalid == ScheduleValidates /\ (req.wasteType = "" \/ req.address = "")
  IN
  /\ Len(pickups) < MaxPickups
  /\ IF g.status # 0 THEN resp' = g /\ pickups' = pickups
     ELSE IF invalid
       THEN /\ resp' = Reply("schedule", req, u, 400,
                             <<"Waste type and address are required.">>)
            /\ pickups' = pickups
     ELSE IF fail
       THEN /\ resp' = PickupCatch("schedule", req, u,
                                   "Error scheduling pickup", DbError, 1)
            /\ pickups' = pickups
     ELSE /\ pickups' = Append(pickups, NewPickup(req.wasteType, req.address))
          /\ resp' = [Reply("schedule", req, u, 201,
                            <<"Pickup scheduled successfully!">>) EXCEPT
                        !.list = <<Len(pickups) + 1>>, !.dbOps = 1]
  /\ UNCHANGED <<version, users, ngos, donations, inflight, tokens>>

\* Variant: the lookup compares the id's counter only, not the whole id.
FindPickupByCounter(oid) == IF oid.n \in DOMAIN pickups THEN oid.n ELSE 0

\* Pickup.findByIdAndUpdate's lookup: the document with that _id, 0 if there is none
FindPickupById(oid) ==
  IF oid.c = "Pickup" /\ oid.n \in DOMAIN pickups THEN oid.n ELSE 0

\* Variant: the update flips the status instead of setting it.
\* Variant: the update document replaces the stored one (overwrite: true)
CompletedUpdateReplace(p) ==
  [wasteType |-> "", address |-> "", status |-> "Completed"]

CompletedUpdateToggle(p) ==
  [p EXCEPT !.status = IF @ = "Completed" THEN "Pending" ELSE "Completed"]

\* The update document of findByIdAndUpdate
CompletedUpdate(p) == [p EXCEPT !.status = "Completed"]

\* PATCH /api/pickups/:id/complete.  findByIdAndUpdate is one atomic database
\* operation and the handler's only await.  The response keeps, next to what
\* is sent, the status the matched document had before the update (prior).
CompletePickup(req, fail) ==
  LET g == Gate("complete", req, CompleteRoles, "Access denied.")
      u == ReqUser(req)
      oid == CastObjectId(req.id)
      found == FindPickupById(oid) # 0
  IN
  /\ IF g.status # 0 THEN resp' = g /\ pickups' = pickups
     ELSE IF ~IsHexString(req.id)
       THEN /\ resp' = PickupCatch("complete", req, u, "Error updating pickup",
                                   CastError, 0)
            /\ pickups' = pickups
     ELSE IF fail
       THEN /\ resp' = PickupCatch("complete", req, u, "Error updating pickup",
                                   DbError, 1)
            /\ pickups' = pickups
     ELSE IF ~found
       THEN /\ resp' = [Reply("complete", req, u, 404,
                              <<"Pickup not found">>) EXCEPT !.dbOps = 1]
            /\ pickups' = pickups
     ELSE /\ pickups' = [pickups EXCEPT ![oid.n] = CompletedUpdate(@)]
          /\ resp' = [Reply("complete", req, u, 200,
                            <<"Pickup marked as completed!">>) EXCEPT
                        !.list = <<oid.n>>, !.dbOps = 1,
                        !.prior = pickups[oid.n].status]
  /\ UNCHANGED <<version, users, ngos, donations, inflight, tokens>>

\* GET /api/driver/route (alphabetical); the route does not exist in v1
DriverRoute(req, fail) ==
  LET g == Gate("driverRoute", req, DriverRouteRoles, "Access denied.")
      u == ReqUser(req) IN
  /\ version \in AuthVersions
  /\ resp' = IF g.status # 0 THEN g
             ELSE IF fail
               THEN PickupCatch("driverRoute", req, u, "Error fetching route",
                                DbError, 1)
             ELSE [Reply("driverRoute", req, u, 200,
                         <<"Route calculated successfully!">>) EXCEPT
                     !.list = SortByAddress(PendingPickups), !.dbOps = 1]
  /\ UNCHANGED <<version, users, ngos, pickups, donations, inflight, tokens>>

RECURSIVE MatchStops(_, _)
\* Map the optimizer's visit order back onto the local pending pickups: a stop
\* is the pickup whose id string equals the stop's id; other stops are dropped.
MatchStops(stops, pending) ==
  IF stops = <<>> THEN <<>>
  ELSE LET hit == {i \in Range(pending) : OidString(PickupId(i)) = Head(stops)}
       IN (IF hit = {} THEN <<>> ELSE <<CHOOSE i \in hit : TRUE>>)
          \o MatchStops(Tail(stops), pending)

\* GET /api/driver/route built from the external route optimizer's answer.
\* `answer` is the visit order the optimizer returns (stop id strings);
\* apiFail is a failed outbound call.
DriverRouteOptimized(req, answer, fail, apiFail) ==
  LET g == Gate("driverRouteOpt", req, DriverRouteRoles, "Access denied.")
      u == ReqUser(req) IN
  /\ version \in AuthVersions
  /\ resp' = IF g.status # 0 THEN g
             ELSE IF fail
               THEN PickupCatch("driverRouteOpt", req, u,
                                "Error fetching route", DbError, 1)
             ELSE IF apiFail
               THEN PickupCatch("driverRouteOpt", req, u,
                                "Error fetching route",
                                [name |-> "AxiosError",
                                 message |-> "Request failed"], 1)
             ELSE [Reply("driverRouteOpt", req, u, 200,
                         <<"Route calculated successfully!">>) EXCEPT
                     !.list = MatchStops(answer, PendingPickups),
                     !.stops = answer, !.dbOps = 1]
  /\ UNCHANGED <<version, users, ngos, pickups, donations, inflight, tokens>>

\* ------------------------------------------------------------ accounts
\* User.findOne({ email }): the filter is cast with the schema's setters, so
\* the address is compared in lower case.
FindUserByEmail(e) == {i \in DOMAIN users : users[i].email = ToLowerCase(e)}

\* new User({ email, password, role }) after the pre-save hook
NewUser(email, pw, role) ==
  [email |-> ToLowerCase(email), password |-> BcryptHash(pw, "salt1"),
   role |-> role]

\* Variant: the schema without unique: true
EmailNeverTaken(email) == FALSE

\* The unique index on User.email
EmailTaken(email) == \E i \in DOMAIN users : users[i].email = ToLowerCase(email)

\* Accounts that exist before the first request.  No route creates an admin
\* or a driver, so these are put into the database by the operator; the
\* 'ngo' role exists in v3 only, v1 has no accounts at all.
SeedPassword == "pw-seed"
SeedUser(email, role) ==
  [email |-> email, password |-> BcryptHash(SeedPassword, "salt0"),
   role |-> role]
SeedUsers(v) ==
  IF v = "v1" THEN <<>>
  ELSE <<SeedUser("admin@x.org", "admin"), SeedUser("driver@x.org", "driver"),
         SeedUser("user@x.org", "user")>>
       \o (IF v = "v3" THEN <<SeedUser("ngo@x.org", "ngo")>> ELSE <<>>)

\* Number of accounts present before the first request: the operator's
\* accounts lead the collection when the database was seeded.
SeedCount ==
  LET seed == SeedUsers(version) IN
  IF Len(users) >= Len(seed) /\ SubSeq(users, 1, Len(seed)) = seed
    THEN Len(seed) ELSE 0
NewUserCount == Len(users) - SeedCount

\* A handler run suspended at an await: its request, where it resumes and the
\* user document it has saved so far (0: none).  Suspended runs are unordered.
Suspended(route, req) ==
  [route |-> route, req |-> req, pc |-> "saveUser", user |-> 0]

\* POST /api/auth/register and /api/auth/register-ngo up to the first await
\* that can be overtaken: validation and User.findOne.  A request that passes
\* is suspended in front of user.save().
RegisterFind(route, req, fail) ==
  LET isNgo == route = "registerNgo"
      missing == req.email = "" \/ req.password = "" \/ (isNgo /\ req.name = "")
  IN
  /\ version \in AuthVersions
  /\ isNgo => version = "v3"
  /\ BagCardinality(inflight) < MaxInflight
  /\ NewUserCount < MaxNewUsers
  /\ IF missing
       THEN /\ resp' = Reply(route, req, NoPayload, 400,
                             <<IF isNgo
                                 THEN "Email, password, and NGO name are required."
                                 ELSE "Email and password are required.">>)
            /\ inflight' = inflight
     ELSE IF fail
       THEN /\ resp' = MessageCatch(route, req, NoPayload, "Server error: ",
                                    DbError, 1)
            /\ inflight' = inflight
     ELSE IF FindUserByEmail(req.email) # {}
       THEN /\ resp' = [Reply(route, req, NoPayload, 400,
                              <<IF isNgo THEN "Email is already in use."
                                ELSE "User already exists.">>) EXCEPT
                          !.dbOps = 1]
            /\ inflight' = inflight
     ELSE /\ resp' = NoResp
          /\ inflight' = inflight (+) SetToBag({Suspended(route, req)})
  /\ UNCHANGED <<version, users, ngos, pickups, donations, tokens>>

\* Variant: the document is built from the whole body, new User(req.body)
RegisteredRoleFromBody(route, req) ==
  IF req.role # "" THEN req.role
  ELSE IF route = "registerNgo" THEN "ngo" ELSE "user"

\* The role the handlers give the new document: the literal 'user'
\* (the schema default in v2) or 'ngo'; a role in the body is never read.
RegisteredRole(route, req) == IF route = "registerNgo" THEN "ngo" ELSE "user"

\* await user.save() of a suspended registration
SaveUser(r, fail) ==
  LET isNgo == r.route = "registerNgo"
      rest == inflight (-) SetToBag({r}) IN
  /\ BagIn(r, inflight)
  /\ r.pc = "saveUser"
  /\ IF fail \/ EmailTaken(r.req.email)
       THEN /\ resp' = MessageCatch(r.route, r.req, NoPayload, "Server error: ",
                                    IF fail THEN DbError ELSE DupKeyError, 2)
            /\ inflight' = rest
            /\ users' = users
     ELSE /\ NewUserCount < MaxNewUsers
          /\ users' = Append(users,
                             NewUser(r.req.email, r.req.password,
                                     RegisteredRole(r.route, r.req)))
          /\ IF isNgo
               THEN /\ inflight' =
                         rest (+) SetToBag({[r EXCEPT !.pc = "saveNgo",
                                                      !.user = Len(users) + 1]})
                    /\ resp' = NoResp
             ELSE /\ inflight' = rest
                  /\ resp' = [Reply(r.route, r.req, NoPayload, 201,
                                    <<"User registered successfully!">>) EXCEPT
                                !.dbOps = 2, !.list = <<Len(users) + 1>>]
  /\ UNCHANGED <<version, ngos, pickups, donations, tokens>>

\* new NGO({ user, name, description })
NewNgo(uid, name) ==
  [user |-> Oid("User", uid), name |-> name, description |-> ""]

\* A request field that holds a JSON object instead of a string
ObjectValue == "{a:1}"

\* ngoSchema.name { type: String, required: true }: validation casts the value
\* to String, which fails for a plain object.
NameCasts(name) == name # ObjectValue
NameValidationError ==
  [name |-> "ValidationError",
   message |-> "NGO validation failed: name: Cast to string failed"]

\* await ngo.save() of a suspended NGO registration.  The user document saved
\* before stays whether or not this save succeeds.
SaveNgo(r, fail) ==
  /\ BagIn(r, inflight)
  /\ r.pc = "saveNgo"
  /\ inflight' = inflight (-) SetToBag({r})
  /\ IF fail \/ ~NameCasts(r.req.name)
       THEN /\ resp' = MessageCatch(r.route, r.req, NoPayload, "Server error: ",
                                    IF fail THEN DbError
                                    ELSE NameValidationError, 3)
            /\ ngos' = ngos
     ELSE /\ ngos' = Append(ngos, NewNgo(r.user, r.req.name))
          /\ resp' = [Reply(r.route, r.req, NoPayload, 201,
                            <<"NGO registered successfully!">>) EXCEPT
                        !.dbOps = 3, !.list = <<r.user>>]
  /\ UNCHANGED <<version, users, pickups, donations, tokens>>

\* The payload login signs for the i-th user
PayloadOf(us, i) == Payload(Oid("User", i), us[i].role)

\* POST /api/auth/login
Login(req, fail) ==
  LET found == FindUserByEmail(req.email)
      i == CHOOSE j \in found : TRUE
  IN
  /\ version \in AuthVersions
  /\ IF req.email = "" \/ req.password = ""
       THEN /\ resp' = Reply("login", req, NoPayload, 400,
                             <<"Email and password are required.">>)
            /\ tokens' = tokens
     ELSE IF fail
       THEN /\ resp' = MessageCatch("login", req, NoPayload, "Server error: ",
                                    DbError, 1)
            /\ tokens' = tokens
     ELSE IF found = {} \/ ~BcryptCompare(req.password, users[i].password)
       THEN /\ resp' = [Reply("login", req, NoPayload, 400,
                              <<"Invalid credentials.">>) EXCEPT !.dbOps = 1]
            /\ tokens' = tokens
     ELSE /\ tokens' = tokens \cup {PayloadOf(users, i)}
          /\ resp' = [Reply("login", req, NoPayload, 200,
                            <<"Login successful!">>) EXCEPT
                        !.dbOps = 1, !.list = <<i>>,
                        !.token = {Token(PayloadOf(users, i), JWT_SECRET, FALSE)}]
  /\ UNCHANGED <<version, users, ngos, pickups, donations, inflight>>

\* ------------------------------------------------------ NGOs and donations
NgoId(i) == Oid("NGO", i)

\* GET /api/ngos
GetNgos(req, fail) ==
  LET g == Gate("ngos", req, {"user"}, "Only users can see this page.")
      u == ReqUser(req) IN
  /\ version = "v3"
  /\ resp' = IF g.status # 0 THEN g
             ELSE IF fail
               THEN MessageCatch("ngos", req, u, "Error fetching NGOs: ",
                                 DbError, 1)
             ELSE [Reply("ngos", req, u, 200, <<>>) EXCEPT
                     !.list = [i \in 1..Len(ngos) |-> i], !.dbOps = 1]
  /\ UNCHANGED <<version, users, ngos, pickups, donations, inflight, tokens>>

\* NGO.findById: the document with that _id, 0 if there is none
FindNgoById(oid) == IF oid.c = "NGO" /\ oid.n \in DOMAIN ngos THEN oid.n ELSE 0

\* Variant: the amount path without required: true and without the Number cast
AmountAlwaysValid(a) == TRUE

\* donationSchema.amount: { type: Number, required: true }.  A body value is
\* <<"num", n>>, <<"numstr", n>> (a string that reads as the number n),
\* <<"str", 0>> (a string that is no number) or <<"missing", 0>>.
AmountValid(a) == a[1] \in {"num", "numstr"}
\* Mongoose's cast of the body value to Number; defined for valid amounts.
CastNumber(a) == a[2]

\* new Donation({ amount, donor, ngo })
NewDonation(amount, userId, ngoId) ==
  [amount |-> CastNumber(amount), donor |-> userId, ngo |-> ngoId]

\* POST /api/donate/:ngoId
Donate(req, fail) ==
  LET g == Gate("donate", req, {"user"}, "Only users can donate.")
      u == ReqUser(req)
      oid == CastObjectId(req.id)
      found == FindNgoById(oid) # 0
  IN
  /\ version = "v3"
  /\ Len(donations) < MaxDonations
  /\ IF g.status # 0 THEN resp' = g /\ donations' = donations
     ELSE IF ~IsHexString(req.id)
       THEN /\ resp' = MessageCatch("donate", req, u, "Donation failed: ",
                                    CastError, 0)
            /\ donations' = donations
     ELSE IF fail
       THEN /\ resp' = MessageCatch("donate", req, u, "Donation failed: ",
                                    DbError, 1)
            /\ donations' = donations
     ELSE IF ~found
       THEN /\ resp' = [Reply("donate", req, u, 404, <<"NGO not found.">>)
                          EXCEPT !.dbOps = 1]
            /\ donations' = donations
     ELSE IF ~AmountValid(req.amount)
       THEN /\ resp' = MessageCatch("donate", req, u, "Donation failed: ",
                                    ValidationError, 1)
            /\ donations' = donations
     ELSE /\ donations' = Append(donations,
                                 NewDonation(req.amount, u.userId, oid))
          /\ resp' = [Reply("donate", req, u, 201,
                            <<"Donation of $", req.amount[2], " successful!">>)
                        EXCEPT !.dbOps = 2, !.list = <<Len(donations) + 1>>]
  /\ UNCHANGED <<version, users, ngos, pickups, inflight, tokens>>

\* GET /api/donations/admin
DonationsAdmin(req, fail) ==
  LET g == Gate("donationsAdmin", req, {"admin"}, "Access denied.")
      u == ReqUser(req) IN
  /\ version = "v3"
  /\ resp' = IF g.status # 0 THEN g
             ELSE IF fail
               THEN MessageCatch("donationsAdmin", req, u,
                                 "Error fetching donations: ", DbError, 1)
             ELSE [Reply("donationsAdmin", req, u, 200, <<>>) EXCEPT
                     !.list = [i \in 1..Len(donations) |-> i], !.dbOps = 1]
  /\ UNCHANGED <<version, users, ngos, pickups, donations, inflight, tokens>>

\* NGO.findOne({ user: userId }): the first matching profile, 0 if none
FindNgoByUser(userId) ==
  LET hit == {i \in DOMAIN ngos : ngos[i].user = userId} IN
  IF hit = {} THEN 0 ELSE CHOOSE i \in hit : \A j \in hit : i <= j

\* Variant: the query without its ngo filter
SelectEveryDonation(n, ngoId) == [i \in 1..n |-> i]

RECURSIVE SelectDonations(_, _)
\* Donation.find({ ngo: ngoId }), in insertion order
SelectDonations(n, ngoId) ==
  IF n = 0 THEN <<>>
  ELSE IF donations[n].ngo = ngoId
    THEN Append(SelectDonations(n - 1, ngoId), n)
  ELSE SelectDonations(n - 1, ngoId)

\* GET /api/donations/ngo
DonationsNgo(req, fail) ==
  LET g == Gate("donationsNgo", req, {"ngo"}, "Access denied.")
      u == ReqUser(req)
      n == FindNgoByUser(u.userId) IN
  /\ version = "v3"
  /\ resp' = IF g.status # 0 THEN g
             ELSE IF fail
               THEN MessageCatch("donationsNgo", req, u,
                                 "Error fetching donations: ", DbError, 1)
             ELSE IF n = 0
               THEN [Reply("donationsNgo", req, u, 404,
                           <<"NGO profile not found.">>) EXCEPT !.dbOps = 1]
             ELSE [Reply("donationsNgo", req, u, 200, <<>>) EXCEPT
                     !.list = SelectDonations(Len(donations), NgoId(n)),
                     !.dbOps = 2]
  /\ UNCHANGED <<version, users, ngos, pickups, donations, inflight, tokens>>

\* ------------------------------------------------------------ environment
SeedNgos(v) == IF v = "v3" THEN <<NewNgo(4, "Seed NGO")>> ELSE <<>>

\* Authorization headers a client can send: none, one without the token
\* part, a token signed with another key, an expired token of the server, and
\* the live tokens login has issued.
ForgedToken == Token(Payload(Oid("User", 1), "admin"), "other-secret", FALSE)
BadHeaders ==
  {<<>>, <<"Bearer">>, <<"Bearer", ForgedToken>>}
  \cup {<<"Bearer", Token(p, JWT_SECRET, TRUE)>> :
          p \in {q \in tokens : q.role = "admin"}}
LiveHeaders == {<<"Bearer", Token(p, JWT_SECRET, FALSE)>> : p \in tokens}
Headers == IF version = "v1" THEN {<<>>} ELSE BadHeaders \cup LiveHeaders
RoleHeaders == {<<>>} \cup (IF version = "v1" THEN {} ELSE LiveHeaders)

WithHeader(h) == [NoReq EXCEPT !.header = h]

\* Request bodies of POST /api/schedule ("" is a missing or empty field)
ValidBodies == {<<"plastic", "2 Elm St">>, <<"paper", "1 Ash Rd">>}
ScheduleBodies == ValidBodies \cup {<<"", "1 Ash Rd">>, <<"plastic", "">>}
ScheduleReq(h, b) ==
  [WithHeader(h) EXCEPT !.wasteType = b[1], !.address = b[2]]

\* :id path parameters: ids of pickups that exist or do not, an id of another
\* collection, and a string that is no ObjectId
PickupIdParams ==
  {OidString(PickupId(i)) : i \in 1..(Len(pickups) + 1)}
  \cup {OidString(NgoId(1)), BadIdString}
NgoIdParams ==
  {OidString(NgoId(i)) : i \in 1..(Len(ngos) + 1)}
  \cup {OidString(PickupId(1)), BadIdString}
IdReq(h, id) == [WithHeader(h) EXCEPT !.id = id]

Amounts == {<<"num", 5>>, <<"num", 0>>, <<"str", 0>>, <<"missing", 0>>}

\* Answers of the route optimizer: up to MaxStops stop ids, of pickups that
\* exist or not
StopIds == {OidString(PickupId(i)) : i \in 1..(Len(pickups) + 1)}
RECURSIVE StopSeqs(_)
StopSeqs(n) ==
  IF n = 0 THEN {<<>>}
  ELSE StopSeqs(n - 1)
       \cup {Append(s, x) : s \in {t \in StopSeqs(n - 1) : Len(t) = n - 1},
                              x \in StopIds}

\* Everybody seeded has logged in.
SeededInit(vs) ==
  /\ version \in vs
  /\ users = SeedUsers(version)
  /\ ngos = SeedNgos(version)
  /\ pickups = <<>>
  /\ donations = <<>>
  /\ inflight = EmptyBag
  /\ tokens = {PayloadOf(users, i) : i \in DOMAIN users}
  /\ resp = NoResp

\* ---- pickups: every version, every request body, callers of every role
InitPickups == SeededInit(Versions)

NextPickups ==
  \/ \E h \in RoleHeaders, fail \in BOOLEAN : GetPickups(WithHeader(h), fail)
  \/ \E h \in RoleHeaders, b \in ScheduleBodies, fail \in BOOLEAN :
       SchedulePickup(ScheduleReq(h, b), fail)
  \/ \E h \in RoleHeaders, id \in PickupIdParams, fail \in BOOLEAN :
       CompletePickup(IdReq(h, id), fail)
  \/ \E h \in RoleHeaders, fail \in BOOLEAN : DriverRoute(WithHeader(h), fail)

SpecPickups == InitPickups /\ [][NextPickups]_vars

\* ---- the driver's route built by the optimizer
InitRoute == SeededInit(AuthVersions)

DriverHeaders ==
  {h \in LiveHeaders : h[2].payload.role \in {"driver", "user"}}

NextRoute ==
  \/ \E h \in DriverHeaders, b \in ValidBodies :
       SchedulePickup(ScheduleReq(h, b), FALSE)
  \/ \E h \in DriverHeaders, id \in PickupIdParams :
       CompletePickup(IdReq(h, id), FALSE)
  \/ \E h \in DriverHeaders, answer \in StopSeqs(MaxStops),
        fail \in {<<FALSE, FALSE>>, <<TRUE, FALSE>>, <<FALSE, TRUE>>} :
       DriverRouteOptimized(WithHeader(h), answer, fail[1], fail[2])

SpecRoute == InitRoute /\ [][NextRoute]_vars

\* ---- the protected routes under every kind of Authorization header
\* The seeded NGO account may lack its profile (its ngo.save() had failed).
InitApi ==
  /\ version \in AuthVersions
  /\ users = SeedUsers(version)
  /\ ngos \in {SeedNgos(version), <<>>}
  /\ pickups = <<>>
  /\ donations = <<>>
  /\ inflight = EmptyBag
  /\ tokens = {PayloadOf(users, i) : i \in DOMAIN users}
  /\ resp = NoResp

NextApi ==
  \/ \E h \in Headers, fail \in BOOLEAN : GetPickups(WithHeader(h), fail)
  \/ \E h \in Headers, b \in {<<"plastic", "2 Elm St">>}, fail \in BOOLEAN :
       SchedulePickup(ScheduleReq(h, b), fail)
  \/ \E h \in Headers, id \in PickupIdParams, fail \in BOOLEAN :
       CompletePickup(IdReq(h, id), fail)
  \/ \E h \in Headers, fail \in BOOLEAN : DriverRoute(WithHeader(h), fail)
  \/ \E h \in Headers, fail \in BOOLEAN : GetNgos(WithHeader(h), fail)
  \/ \E h \in Headers, id \in NgoIdParams, a \in {<<"num", 5>>, <<"missing", 0>>},
        fail \in BOOLEAN :
       Donate([IdReq(h, id) EXCEPT !.amount = a], fail)
  \/ \E h \in Headers, fail \in BOOLEAN : DonationsAdmin(WithHeader(h), fail)
  \/ \E h \in Headers, fail \in BOOLEAN : DonationsNgo(WithHeader(h), fail)

SpecApi == InitApi /\ [][NextApi]_vars

\* ---- accounts: registrations that interleave at their awaits, and login
InitAuth ==
  /\ version \in AuthVersions
  /\ \E seeded \in BOOLEAN :
       /\ users = IF seeded THEN SeedUsers(version) ELSE <<>>
       /\ ngos = IF seeded THEN SeedNgos(version) ELSE <<>>
  /\ pickups = <<>>
  /\ donations = <<>>
  /\ inflight = EmptyBag
  /\ tokens = {}
  /\ resp = NoResp

AccountReq(e, pw, name) ==
  [NoReq EXCEPT !.email = e, !.password = pw, !.name = name]

\* Request bodies <<email, password, name>> or <<email, password, name, role>>;
\* "" is a missing or empty field
BodyReq(b) ==
  [AccountReq(b[1], b[2], b[3]) EXCEPT !.role = IF Len(b) = 4 THEN b[4] ELSE ""]
RegisterBodies ==
  {<<"", "pw1", "">>, <<"a@x.org", "", "">>, <<"a@x.org", "pw1", "">>,
   <<"A@x.org", "pw1", "">>, <<"b@x.org", "pw1", "", "admin">>}
RegisterNgoBodies ==
  {<<"", "pw1", "Food Bank">>, <<"a@x.org", "pw1", "">>,
   <<"a@x.org", "pw1", "Food Bank", "driver">>, <<"A@x.org", "pw1", "Food Bank">>,
   <<"b@x.org", "pw1", ObjectValue>>}
LoginBodies ==
  {<<"", "pw1", "">>, <<"a@x.org", "", "">>, <<"a@x.org", "pw1", "">>,
   <<"A@x.org", "pw1", "">>, <<"a@x.org", "pw2", "">>,
   <<"nobody@x.org", "pw1", "">>, <<"admin@x.org", SeedPassword, "">>,
   <<"admin@x.org", "pw1", "">>}

NextAuth ==
  \/ \E b \in RegisterBodies, fail \in BOOLEAN :
       RegisterFind("register", BodyReq(b), fail)
  \/ \E b \in RegisterNgoBodies, fail \in BOOLEAN :
       RegisterFind("registerNgo", BodyReq(b), fail)
  \/ \E r \in BagToSet(inflight), fail \in BOOLEAN : SaveUser(r, fail)
  \/ \E r \in BagToSet(inflight), fail \in BOOLEAN : SaveNgo(r, fail)
  \/ \E b \in LoginBodies, fail \in BOOLEAN :
       Login(BodyReq(b), fail)

SpecAuth == InitAuth /\ [][NextAuth]_vars

\* ---- donations: a second NGO registers, users donate, NGOs read their list
InitDonations == SeededInit({"v3"})

SecondNgoBody == <<"a@x.org", "pw1", "Food Bank">>
DonorHeaders ==
  {h \in LiveHeaders : h[2].payload.role \in {"user", "ngo"}}
DonationAmounts ==
  {<<"num", 5>>, <<"numstr", 7>>, <<"str", 0>>, <<"missing", 0>>}

NextDonations ==
  \/ RegisterFind("registerNgo",
                  AccountReq(SecondNgoBody[1], SecondNgoBody[2],
                             SecondNgoBody[3]), FALSE)
  \/ \E r \in BagToSet(inflight) : SaveUser(r, FALSE)
  \/ \E r \in BagToSet(inflight), fail \in BOOLEAN : SaveNgo(r, fail)
  \/ Login(AccountReq(SecondNgoBody[1], SecondNgoBody[2], ""), FALSE)
  \/ \E h \in DonorHeaders, id \in NgoIdParams, a \in DonationAmounts,
        fail \in BOOLEAN :
       Donate([IdReq(h, id) EXCEPT !.amount = a], fail)
  \/ \E h \in DonorHeaders, fail \in BOOLEAN : DonationsNgo(WithHeader(h), fail)

SpecDonations == InitDonations /\ [][NextDonations]_vars

\* ================================================================ claims
\* A request got past authMiddleware and the handler's role check.
Admitted(r) == r.entered /\ r.status # 403

\* C1: pickup status is one-way.  Every pickup is created by POST
\* /api/schedule (201) with status Pending; the only status change is PATCH
\* /api/pickups/:id/complete taking a pickup from Pending to Completed; a
\* Completed pickup stays Completed and no status other than Pending and
\* Completed ever occurs.  No pickup is removed.
C1_StatusOneWay ==
  [][/\ Len(pickups') >= Len(pickups)
     /\ \A i \in DOMAIN pickups' : pickups'[i].status \in {"Pending", "Completed"}
     /\ \A i \in DOMAIN pickups' \ DOMAIN pickups :
          /\ pickups'[i].status = "Pending"
          /\ resp'.route = "schedule" /\ resp'.status = 201
     /\ \A i \in DOMAIN pickups :
          /\ pickups[i].status = "Completed" => pickups'[i].status = "Completed"
          /\ pickups'[i].status # pickups[i].status =>
               /\ pickups'[i].status = "Completed"
               /\ resp'.route = "complete" /\ resp'.status = 200]_vars

\* C1 witness: a pickup was completed while another one is still pending.
C1_Witness ==
  /\ resp.route = "complete" /\ resp.status = 200
  /\ \E i, j \in DOMAIN pickups :
       pickups[i].status = "Completed" /\ pickups[j].status = "Pending"

\* C5 (as claimed): POST /api/schedule with a missing or empty wasteType or
\* address is answered 400 and creates no pickup, in every version.
C5_MissingFieldIs400 ==
  (/\ resp.route = "schedule" /\ Admitted(resp) /\ resp.thrown = {}
   /\ (resp.req.wasteType = "" \/ resp.req.address = ""))
  => (resp.status = 400 /\ resp.list = <<>>)

\* C6: GET /api/driver/route called by a driver returns exactly the pickups
\* that are Pending at the time of the query, each once, in ascending order
\* of address; so a completed pickup is in no later route response.
C6_RouteIsPendingByAddress ==
  /\ (resp.route = "driverRoute" /\ resp.user.role = "driver"
      /\ resp.thrown = {}) => resp.status = 200
  /\ (resp.route = "driverRoute" /\ resp.status = 200) =>
       /\ resp.user.role = "driver"
       /\ Range(resp.list) =
            {i \in DOMAIN pickups : pickups[i].status = "Pending"}
       /\ Cardinality(Range(resp.list)) = Len(resp.list)
       /\ \A a, b \in DOMAIN resp.list :
            a < b => AddressRank[pickups[resp.list[a]].address]
                       <= AddressRank[pickups[resp.list[b]].address]

\* C6 witness: a route of two pickups whose address order is not their
\* insertion order.
C6_Witness ==
  /\ resp.route = "driverRoute" /\ resp.status = 200
  /\ Len(resp.list) = 2 /\ resp.list[1] > resp.list[2]
  /\ pickups[resp.list[1]].address # pickups[resp.list[2]].address

\* C8 (as claimed): an error thrown inside a route handler is answered with
\* HTTP 500 and the response carries the error's message.
C8_ErrorIs500WithMessage ==
  \A e \in resp.thrown :
    /\ resp.status = 500
    /\ e.message \in Range(resp.message) \cup Range(resp.error)

\* A stop id the optimizer returned that is the id string of a pickup
\* pending locally.
StopIsPending(stop) ==
  \E i \in DOMAIN pickups :
    pickups[i].status = "Pending" /\ OidString(PickupId(i)) = stop

HeaderVerifies(h) ==
  Len(h) >= 2 /\ h[2].sig = JWT_SECRET /\ ~h[2].expired

\* Allowed roles per route in the latest version
C3_Allowed ==
  [r \in {"pickups", "schedule", "complete", "driverRoute", "ngos", "donate",
          "donationsAdmin", "donationsNgo"} |->
     CASE r = "pickups" -> {"admin"}
       [] r = "schedule" -> {"user"}
       [] r = "complete" -> {"admin", "driver"}
       [] r = "driverRoute" -> {"driver"}
       [] r = "ngos" -> {"user"}
       [] r = "donate" -> {"user"}
       [] r = "donationsAdmin" -> {"admin"}
       [] r = "donationsNgo" -> {"ngo"}]

\* C3: in the latest version a request with a valid token whose role is not
\* in the route's allowed set is answered 403, performs no database
\* operation and leaves every collection as it was.
C3_RoleGate ==
  [][(/\ version = "v3"
      /\ resp'.route \in DOMAIN C3_Allowed
      /\ HeaderVerifies(resp'.req.header)
      /\ resp'.req.header[2].payload.role \notin C3_Allowed[resp'.route])
     => (/\ resp'.status = 403
         /\ resp'.dbOps = 0
         /\ UNCHANGED <<users, ngos, pickups, donations>>)]_vars

\* C3 witness: a user-role token was refused the completion of an existing
\* pending pickup.
C3_Witness ==
  /\ version = "v3"
  /\ resp.route = "complete" /\ resp.status = 403
  /\ resp.user.role = "user"
  /\ CastObjectId(resp.req.id).n \in DOMAIN pickups
  /\ pickups[CastObjectId(resp.req.id).n].status = "Pending"

\* C4: on the routes behind authMiddleware a request without Authorization
\* header or with a token that does not verify is answered 401, the handler
\* is not entered and no collection changes; the handler is entered only
\* with a verified token, and req.user is that token's payload.
C4_AuthGate ==
  [][/\ (resp'.route # "" /\ ~HeaderVerifies(resp'.req.header))
          => (/\ resp'.status = 401
              /\ ~resp'.entered
              /\ resp'.dbOps = 0
              /\ UNCHANGED <<users, ngos, pickups, donations>>)
     /\ resp'.entered
          => (/\ HeaderVerifies(resp'.req.header)
              /\ resp'.user = resp'.req.header[2].payload)]_vars

\* C4 witness: an expired token of the admin was refused while a pending
\* pickup existed.
C4_Witness ==
  /\ resp.status = 401 /\ resp.route = "complete"
  /\ Len(resp.req.header) = 2 /\ resp.req.header[2].expired
  /\ resp.req.header[2].sig = JWT_SECRET
  /\ \E i \in DOMAIN pickups : pickups[i].status = "Pending"

\* The :id parameter of the last request is the id string of no stored
\* pickup (of no stored NGO).
NoPickupHasId(id) == \A i \in DOMAIN pickups : OidString(PickupId(i)) # id
NoNgoHasId(id) == \A i \in DOMAIN ngos : OidString(NgoId(i)) # id
NoProfileOf(userId) == \A i \in DOMAIN ngos : ngos[i].user # userId

\* C7 (as claimed): an admitted PATCH /api/pickups/:id/complete for an id
\* that matches no pickup, and an admitted POST /api/donate/:ngoId for an id
\* that matches no NGO, are answered 404; GET /api/donations/ngo by an
\* ngo-role user without NGO profile is answered 404 (database up).
C7_MissingIs404 ==
  (Admitted(resp) /\ DbError \notin resp.thrown) =>
    /\ (resp.route = "complete" /\ NoPickupHasId(resp.req.id))
         => resp.status = 404
    /\ (resp.route = "donate" /\ NoNgoHasId(resp.req.id))
         => resp.status = 404
    /\ (resp.route = "donationsNgo" /\ NoProfileOf(resp.user.userId))
         => resp.status = 404

\* C7 (amended): for an id that is a well-formed ObjectId string and matches
\* no record the answer is 404, for an id that is no ObjectId string it is
\* 500 (cast error), and 500 if the database call fails; in all these cases
\* no pickup and no donation changes.  GET /api/donations/ngo by an ngo-role
\* user without profile is answered 404 (500 if the database call fails).
C7_MissingIs404OrCastError ==
  [][Admitted(resp') =>
      LET id == resp'.req.id
          expected == IF DbError \in resp'.thrown \/ ~IsHexString(id)
                        THEN 500 ELSE 404
      IN
      /\ (resp'.route = "complete" /\ NoPickupHasId(id))
           => (resp'.status = expected /\ pickups' = pickups)
      /\ (resp'.route = "donate" /\ NoNgoHasId(id))
           => (resp'.status = expected /\ donations' = donations)
      /\ (resp'.route = "donationsNgo" /\ NoProfileOf(resp'.user.userId))
           => resp'.status = (IF DbError \in resp'.thrown THEN 500 ELSE 404)
      /\ (resp'.route \in {"complete", "donate"} /\ ~IsHexString(id))
           => resp'.thrown = {CastError}]_vars

\* C7 witness: a driver asked to complete a well-formed id that matches no
\* pickup while a pending pickup existed, and got 404.
C7_Witness ==
  /\ resp.route = "complete" /\ resp.status = 404
  /\ resp.user.role = "driver"
  /\ IsHexString(resp.req.id) /\ NoPickupHasId(resp.req.id)
  /\ \E i \in DOMAIN pickups : pickups[i].status = "Pending"

\* C2: no two users hold the same email, whatever the interleaving of the
\* registrations; stored users never change; a registration whose email is
\* held by a user when it looks the email up or saves its user creates no
\* user and is answered 400 or 500.
C2_EmailUnique ==
  [][/\ \A i, j \in DOMAIN users' :
          i # j => ToLowerCase(users'[i].email) # ToLowerCase(users'[j].email)
     /\ Len(users') >= Len(users)
     /\ \A i \in DOMAIN users : users'[i] = users[i]
     /\ (/\ resp'.route \in {"register", "registerNgo"}
         /\ resp'.dbOps \in {1, 2}
         /\ \E i \in DOMAIN users :
              users[i].email = ToLowerCase(resp'.req.email))
          => (users' = users /\ resp'.status \in {400, 500})]_vars

\* C2 witness: two registrations of one email interleaved; both passed the
\* lookup, one saved its user and the other one failed at save.
C2_Witness ==
  /\ resp.route \in {"register", "registerNgo"}
  /\ resp.status = 500 /\ resp.thrown = {DupKeyError}
  /\ \E i \in DOMAIN users :
       i > SeedCount /\ users[i].email = ToLowerCase(resp.req.email)

C11_OwnDonationsOnly ==
  resp.route = "donationsNgo" =>
    LET mine == {n \in DOMAIN ngos : ngos[n].user = resp.user.userId} IN
    /\ (resp.user.role = "ngo" /\ mine # {} /\ resp.thrown = {})
         => resp.status = 200
    /\ resp.status = 200 =>
         /\ resp.user.role = "ngo"
         /\ Cardinality(mine) = 1
         /\ \A n \in mine :
              Range(resp.list) =
                {d \in DOMAIN donations : donations[d].ngo = Oid("NGO", n)}
         /\ Cardinality(Range(resp.list)) = Len(resp.list)

\* C11 witness: an NGO read its list, which holds a donation, while a
\* donation to another NGO is stored too.
C11_Witness ==
  /\ resp.route = "donationsNgo" /\ resp.status = 200
  /\ resp.list # <<>>
  /\ \E d \in DOMAIN donations : d \notin Range(resp.list)

\* C12: a successful POST /api/donate/:ngoId (201) appends exactly one
\* donation whose donor is the userId of the caller's token, whose ngo is the
\* stored NGO the id parameter names and whose amount is the number the
\* request carries, and changes nothing else; any other answer and any
\* request without a valid amount store nothing; every stored donation
\* references a stored NGO and a user-role donor.
C12_DonateFrame ==
  [][/\ \A d \in DOMAIN donations' :
          /\ donations'[d].ngo.c = "NGO"
          /\ donations'[d].ngo.n \in DOMAIN ngos'
          /\ donations'[d].donor.c = "User"
          /\ donations'[d].donor.n \in DOMAIN users'
          /\ users'[donations'[d].donor.n].role = "user"
     /\ resp'.route = "donate" =>
          LET a == resp'.req.amount IN
          /\ resp'.status = 201 =>
               /\ a[1] \in {"num", "numstr"}
               /\ donations' =
                    Append(donations,
                           [amount |-> a[2],
                            donor |-> resp'.req.header[2].payload.userId,
                            ngo |-> Oid(resp'.req.id[2], resp'.req.id[3])])
               /\ resp'.req.id[1] = "hex"
               /\ UNCHANGED <<users, ngos, pickups, inflight, tokens>>
          /\ resp'.status # 201 => donations' = donations
          /\ a[1] \notin {"num", "numstr"} => donations' = donations
     /\ resp'.route # "donate" => donations' = donations]_vars

\* C12 witness: a donation whose amount came as a numeric string was stored
\* as the second one, for another NGO than the first.
C12_Witness ==
  /\ resp.route = "donate" /\ resp.status = 201
  /\ resp.req.amount[1] = "numstr"
  /\ Len(donations) = 2
  /\ donations[1].ngo # donations[2].ngo

\* C13: NGO registration is all-or-nothing: once a register-ngo request is
\* answered (201, 400 or 500) and no registration is still running, an
\* ngo-role user with the request's email exists exactly if one NGO profile
\* linked to it exists, and every ngo-role user has exactly one profile.
C13_AllOrNothing ==
  (/\ resp.route = "registerNgo"
   /\ resp.status \in {201, 400, 500}
   /\ inflight = EmptyBag) =>
    LET ProfilesOf(i) == {j \in DOMAIN ngos : ngos[j].user = Oid("User", i)}
        e == ToLowerCase(resp.req.email)
    IN
    /\ \A i \in DOMAIN users :
         users[i].email = e =>
           (users[i].role = "ngo" <=> Cardinality(ProfilesOf(i)) = 1)
    /\ \A i \in DOMAIN users :
         users[i].role = "ngo" => Cardinality(ProfilesOf(i)) = 1

\* C14: no privilege escalation.  Whatever the body carries, a step of
\* POST /api/auth/register stores only role user and a step of
\* POST /api/auth/register-ngo only role ngo; no step changes or removes a
\* stored user; a token login issues carries the stored role of its user.
\* So every account beyond the operator's has role user or ngo, an admin or
\* driver token belongs to an operator's account, and an unseeded database
\* never holds an admin or driver account or token.
C14_NoEscalation ==
  /\ [](/\ \A i \in DOMAIN users :
             i > SeedCount => users[i].role \in {"user", "ngo"}
        /\ \A t \in tokens :
             t.role \in {"admin", "driver"} => t.userId.n \in 1..SeedCount)
  /\ [][/\ Len(users') >= Len(users)
        /\ \A i \in DOMAIN users : users'[i] = users[i]
        /\ \A i \in DOMAIN users' \ DOMAIN users :
             IF resp'.route = "register"
               THEN users'[i].role = "user"
               ELSE /\ users'[i].role = "ngo"
                    /\ \E r \in BagToSet(inflight') :
                         r.route = "registerNgo" /\ r.user = i
        /\ \A t \in tokens' \ tokens :
             /\ resp'.route = "login"
             /\ t.userId.c = "User" /\ t.userId.n \in DOMAIN users
             /\ t.role = users[t.userId.n].role]_vars

\* C14 witness: in a database without operator accounts a registration whose
\* body asked for role admin was stored as a plain user, an NGO registration
\* whose body asked for role driver as ngo, and the NGO account logged in.
C14_Witness ==
  /\ SeedCount = 0
  /\ Len(users) = 2
  /\ \E i \in DOMAIN users : users[i].email = "b@x.org" /\ users[i].role = "user"
  /\ \E i \in DOMAIN users : users[i].email = "a@x.org" /\ users[i].role = "ngo"
  /\ resp.route = "login" /\ resp.status = 200
  /\ resp.req.email = "a@x.org"
  /\ tokens # {} /\ \A t \in tokens : t.role = "ngo"

\* C15: completing is idempotent and local.  A completion answered 200
\* sets the status of the pickup the id names to Completed and changes no
\* other field, no other pickup and no other collection; when that pickup
\* was already Completed the store stays exactly as it was, so a second
\* completion ends in the state the first one left; an admitted completion
\* of an existing pickup that meets no database error is answered 200,
\* whatever the pickup's status; every other answer changes no pickup.
C15_CompleteIdempotentLocal ==
  [][resp'.route = "complete" =>
       LET id == resp'.req.id
           n == id[3]
           addressed == id[1] = "hex" /\ id[2] = "Pickup" /\ n \in DOMAIN pickups
       IN
       /\ (Admitted(resp') /\ resp'.thrown = {} /\ addressed) => resp'.status = 200
       /\ resp'.status = 200 =>
            /\ addressed
            /\ Len(pickups') = Len(pickups)
            /\ pickups'[n].status = "Completed"
            /\ pickups'[n].wasteType = pickups[n].wasteType
            /\ pickups'[n].address = pickups[n].address
            /\ \A i \in DOMAIN pickups : i # n => pickups'[i] = pickups[i]
            /\ pickups[n].status = "Completed" => pickups' = pickups
            /\ UNCHANGED <<users, ngos, donations, inflight, tokens>>
       /\ resp'.status # 200 => pickups' = pickups]_vars

\* C15 witness: a completion of an already Completed pickup was answered 200
\* while another pickup is still Pending.
C15_Witness ==
  /\ resp.route = "complete" /\ resp.status = 200
  /\ resp.prior = "Completed"
  /\ pickups[resp.list[1]].status = "Completed"
  /\ \E j \in DOMAIN pickups : pickups[j].status = "Pending"

====
